---- MODULE Spec2Model ----
(***************************************************************************)
(* A model of the telemetry bridge of the fuel-cell monitor:                *)
(*   - WebSocketService  (src/services/websocketService.ts): the session,  *)
(*     its reconnect policy and the fan-out to subscribers;                 *)
(*   - the App component (src/unnamed/part_001): control updates and the    *)
(*     momentary command pulse, the buffered CSV log, the fault log.        *)
(* Callbacks run to completion (one JavaScript event loop): every action    *)
(* below is one handler, from its first statement to its last, or up to     *)
(* its next await.                                                          *)
(***************************************************************************)
EXTENDS Integers, Sequences, FiniteSets, TLC

(***************************************************************************)
(* Bounds of the model.                                                     *)
(***************************************************************************)
\* transports that exist at the same time (sockets whose events can still fire)
MaxSockets == 2
\* reconnect timers pending at the same time
MaxTimers == 2
\* sendControl calls in one behaviour
MaxCalls == 2
\* transports and pending timers in the specifications whose subject is not
\* the reconnect policy (fan-out, control updates)
OneSocket == 1
OneTimer == 1
\* operator actions on the control panel in one behaviour
MaxUpdates == 3
\* CSV lines produced in one behaviour
MaxLines == 3
\* snapshots delivered in one behaviour
MaxSnapshots == 3
\* the time one behaviour spans, in ms
MaxElapsedMs == 5000
\* today's date, in days since 1 January 1970
DaysSinceEpoch == 20
\* distinct subscriber callbacks
NumCallbacks == 2
\* runs of the chart history effect in one behaviour
MaxPoints == 4
\* the time one behaviour of the chart history spans, in ms
MaxWaitMs == 1300000
\* the largest raw 16-bit field among the sampled power frames
MaxRaw == 1000

(***************************************************************************)
(* Program constants.                                                       *)
(***************************************************************************)
maxReconnectAttempts == 10
\* the delay of a reconnect, in ms
reconnectDelay == 2000
\* .slice(0, 50) of the fault log
FaultLogCap == 50
\* the 2000 of the fault log's repeat test
FaultRepeatMs == 2000
\* the chart history keeps 600 seconds
maxSeconds == 600

Null == 0

SocketIds == 1..MaxSockets
TimerIds == 1..MaxTimers
Callbacks == 1..NumCallbacks

\* WebSocket.readyState, plus FREE for a slot of the model that holds no socket
ReadyStates == {"CONNECTING", "OPEN", "CLOSING", "CLOSED"}

VARIABLES
    sockets,              \* socket slot -> readyState of the WebSocket object in it, or "FREE"
    ws,                   \* this.ws: a socket slot or Null
    timers,               \* the reconnect timeouts that are pending in the browser
    reconnectTimer,       \* this.reconnectTimer: the id returned by the last setTimeout, or Null
    reconnectAttempts,    \* this.reconnectAttempts
    machineStateCallbacks,\* Set<MachineStateCallback>, in insertion order
    connectionCallbacks,  \* Set<ConnectionCallback>, in insertion order
    diagnosisCallbacks,   \* Set<DiagnosisCallback>, in insertion order
    closures,             \* the unsubscribe closures the on* methods have returned
    sent,                 \* what ws.send() has put on the transports, in order
    calls,                \* the number of sendControl calls made (observation only)
    ev,                   \* the handler that ran last and what it did (observation only)
    explicitlyClosed,     \* disconnect() was called and connect() was not called since (observation only)
    exhausted             \* a close event found the attempt budget used up and connect() was not called since (observation only)

wsVars == <<sockets, ws, timers, reconnectTimer, reconnectAttempts,
            machineStateCallbacks, connectionCallbacks, diagnosisCallbacks,
            closures, sent, calls, ev, explicitlyClosed, exhausted>>

VARIABLES
    control,              \* App: the ControlState held by useState
    clearTimers,          \* App: the pending 200 ms timeouts of handleCommand, oldest first;
                          \*      each holds the ControlState its closure captured
    updates               \* App: the number of operator actions taken (observation only)

ctlVars == <<control, clearTimers, updates>>

VARIABLES
    mounted,              \* App: the component is mounted (its effects are set up)
    isLogging,            \* App: the isLogging state
    writableStreamRef,    \* App: writableStreamRef.current, a stream or Null
    streamState,          \* the FileSystemWritableFileStream: "none", "open", "closing", "closed", "errored"
    bufferRef,            \* App: bufferRef.current, the pending lines
    written,              \* the lines the stream has taken, in order
    togglePc,             \* where handleToggleLog is suspended: "idle", "stopWriting", "stopClosing"
    writeOk,              \* whether the write handleToggleLog awaits succeeds
    lastExit,             \* how logging was last left: "none", "stopped", "stopFailed", "teardown" (observation only)
    nextLine,             \* the number of the next CSV line (observation only)
    logEv                 \* the log handler that ran last, whether its write landed, and the
                          \* number of flush ticks whose write failed so far (observation only)

logVars == <<mounted, isLogging, writableStreamRef, streamState, bufferRef,
             written, togglePc, writeOk, lastExit, nextLine, logEv>>

VARIABLES
    now,                  \* Date.now(), in ms
    faultLogs,            \* App: the faultLogs state, newest first
    snapshots             \* the number of snapshots delivered (observation only)

aggVars == <<now, faultLogs, snapshots>>

VARIABLES
    history,              \* App: the chart history state, oldest first
    isConnected,          \* App: the isConnected flag
    histEv,               \* what made the history effect run last (observation only)
    histUpdates           \* the number of events that touched the effect's inputs (observation only)

histVars == <<history, isConnected, histEv, histUpdates>>

VARIABLES
    codecIn,              \* the frame handed to a parser or the ControlState handed to the generator
    codecOut              \* what the parser or the generator returned, or pending

codecVars == <<codecIn, codecOut>>

extVars == <<histVars, codecVars>>

vars == <<wsVars, ctlVars, logVars, aggVars, extVars>>

(***************************************************************************)
(* Values carried by messages.                                              *)
(***************************************************************************)
\* two MachineState snapshots and two DiagnosisResult values stand for all
MachineStates == {"m1", "m2"}
DiagnosisResults == {"g1"}
NoDiagnosis == "none"
\* a message whose data member is absent or null
NoData == "absent"

\* an inbound frame of text: a machine_state message with or without data
\* and with or without diagnosis, a message of another type, or text
\* JSON.parse rejects
InboundMessages ==
    [type : {"machine_state"}, data : MachineStates \cup {NoData},
     diagnosis : DiagnosisResults \cup {NoDiagnosis}]
    \cup {[type |-> "other", data |-> "m1", diagnosis |-> NoDiagnosis]}
    \cup {[type |-> "unparsable", data |-> "m1", diagnosis |-> NoDiagnosis]}

\* the ControlState values sendControl is called with in the session model
WireControls == {"c1", "c2"}

(***************************************************************************)
(* Sockets: the browser's WebSocket objects.  A socket created by connect() *)
(* keeps the four handlers connect() attached to it for as long as it       *)
(* lives, whether or not this.ws still refers to it.                        *)
(***************************************************************************)
IsOpen(socks, handle) == handle # Null /\ socks[handle] = "OPEN"

\* a slot whose socket is CLOSED and that this.ws does not refer to can
\* fire no event and be read by nobody: the slot is free again
Release(socks, handle) ==
    [s \in SocketIds |->
        IF socks[s] = "CLOSED" /\ s # handle THEN "FREE" ELSE socks[s]]

FreeSlots(socks) == {s \in SocketIds : socks[s] = "FREE"}

NewSlot(socks) == CHOOSE s \in FreeSlots(socks) : \A t \in FreeSlots(socks) : s <= t

\* WebSocket.close(): CONNECTING and OPEN become CLOSING, the close event
\* follows later; on a CLOSING or CLOSED socket it does nothing
CloseCall(state) == IF state \in {"CONNECTING", "OPEN"} THEN "CLOSING" ELSE state

\* sockets whose handlers can still drive the session
LiveSockets == {s \in SocketIds : sockets[s] \in {"CONNECTING", "OPEN"}}

FreeTimers == TimerIds \ timers

NewTimer == CHOOSE t \in FreeTimers : \A u \in FreeTimers : t <= u

(***************************************************************************)
(* Fan-out.  A Set iterates in insertion order; a callback may throw.       *)
(* throwers is the set of callbacks that throw when invoked this time.      *)
(***************************************************************************)
\* the callbacks in a Set
Members(cbs) == {cbs[i] : i \in 1..Len(cbs)}

\* one invocation of a callback: inside try { } catch { console.error } when
\* guarded, bare otherwise
Invoke(cb, throwers, guarded) ==
    IF cb \notin throwers THEN "returned"
    ELSE IF guarded THEN "caught" ELSE "thrown"

RECURSIVE ForEach(_, _, _)
\* callbacks.forEach(...): the callbacks invoked, in order, and whether an
\* exception left the loop
ForEach(cbs, throwers, guarded) ==
    IF cbs = <<>> THEN [delivered |-> <<>>, escaped |-> FALSE]
    ELSE IF Invoke(Head(cbs), throwers, guarded) = "thrown"
         THEN [delivered |-> <<Head(cbs)>>, escaped |-> TRUE]
         ELSE LET rest == ForEach(Tail(cbs), throwers, guarded)
              IN  [delivered |-> <<Head(cbs)>> \o rest.delivered,
                   escaped |-> rest.escaped]

\* one notification: who was subscribed, who was invoked, who of them threw
Note(kind, value, cbs, throwers, r) ==
    [kind |-> kind, value |-> value, subscribers |-> cbs,
     delivered |-> r.delivered,
     failed |-> Members(r.delivered) \cap throwers,
     escaped |-> r.escaped]

notifyMachineState_unguarded(state, throwers) ==
    Note("state", state, machineStateCallbacks, throwers,
         ForEach(machineStateCallbacks, throwers, FALSE))

notifyMachineState(state, throwers) ==
    Note("state", state, machineStateCallbacks, throwers,
         ForEach(machineStateCallbacks, throwers, TRUE))

notifyConnection_unguarded(connected, throwers) ==
    Note("connection", connected, connectionCallbacks, throwers,
         ForEach(connectionCallbacks, throwers, FALSE))

notifyConnection(connected, throwers) ==
    Note("connection", connected, connectionCallbacks, throwers,
         ForEach(connectionCallbacks, throwers, TRUE))

notifyDiagnosis(result, throwers) ==
    Note("diagnosis", result, diagnosisCallbacks, throwers,
         ForEach(diagnosisCallbacks, throwers, TRUE))

\* Set.add and Set.delete on an insertion-ordered set
SetAdd(cbs, cb) ==
    IF \E i \in 1..Len(cbs) : cbs[i] = cb THEN cbs ELSE Append(cbs, cb)

\* a delete that removes the oldest member whatever it is given
SetDelete_oldest(cbs, cb) == IF cbs = <<>> THEN cbs ELSE Tail(cbs)

SetDelete(cbs, cb) == SelectSeq(cbs, LAMBDA x : x # cb)

\* what a handler did: its name, what it was given (the message, the kind
\* and callback of a subscription) or Null, the notifications it made and
\* whether an exception left it
Event(op, arg, notes, threw) ==
    [op |-> op, arg |-> arg, notes |-> notes, threw |-> threw]

(***************************************************************************)
(* The session after construction: the field initialisers of the class.    *)
(***************************************************************************)
InitService ==
    /\ sockets = [s \in SocketIds |-> "FREE"]
    /\ ws = Null
    /\ timers = {}
    /\ reconnectTimer = Null
    /\ reconnectAttempts = 0
    /\ machineStateCallbacks = <<>>
    /\ connectionCallbacks = <<>>
    /\ diagnosisCallbacks = <<>>
    /\ closures = {}
    /\ sent = <<>>
    /\ calls = 0
    /\ ev = Event("new", Null, <<>>, FALSE)
    /\ explicitlyClosed = FALSE
    /\ exhausted = FALSE

UnchangedCallbacks ==
    UNCHANGED <<machineStateCallbacks, connectionCallbacks, diagnosisCallbacks,
                closures>>

(***************************************************************************)
(* connect(url).  The url is the one constant address in every call, and    *)
(* new WebSocket(url) throws only for a malformed url, so the catch branch  *)
(* is not taken.  The body is shared by the explicit call and by the        *)
(* reconnect timer's callback.                                              *)
(***************************************************************************)
\* a connect() without the test of the readyState
ConnectCreates_always == TRUE

\* connect() goes on to create a transport: this.ws is not OPEN
ConnectCreates == ~IsOpen(sockets, ws)

\* the sockets and the handle after connect() has run
ConnectSockets ==
    IF ConnectCreates
    THEN LET socks == Release(sockets, Null)
         IN  [socks EXCEPT ![NewSlot(socks)] = "CONNECTING"]
    ELSE sockets

ConnectHandle ==
    IF ConnectCreates THEN NewSlot(Release(sockets, Null)) ELSE ws

\* the model can hold the socket connect() would create: fewer than cap
\* sockets exist
ConnectFits(cap) ==
    ConnectCreates =>
        Cardinality(SocketIds \ FreeSlots(Release(sockets, Null))) < cap

\* connect(), called by the user of the service
Connect(cap) ==
    /\ ConnectFits(cap)
    /\ sockets' = ConnectSockets
    /\ ws' = ConnectHandle
    /\ ev' = Event("connect", Null, <<>>, FALSE)
    /\ explicitlyClosed' = FALSE
    /\ exhausted' = FALSE
    /\ UNCHANGED <<timers, reconnectTimer, reconnectAttempts, sent, calls>>
    /\ UnchangedCallbacks

\* the reconnect timeout set by attemptReconnect fires: connect(url)
TimerFire(t, cap) ==
    /\ t \in timers
    /\ ConnectFits(cap)
    /\ timers' = timers \ {t}
    /\ sockets' = ConnectSockets
    /\ ws' = ConnectHandle
    /\ ev' = Event("timer", Null, <<>>, FALSE)
    /\ UNCHANGED <<reconnectTimer, reconnectAttempts, sent, calls, explicitlyClosed,
                   exhausted>>
    /\ UnchangedCallbacks

\* an onopen that leaves the counter as it is
AttemptsOnOpen_kept == reconnectAttempts

\* this.reconnectAttempts = 0 of onopen
AttemptsOnOpen == 0

\* ws.onopen of socket s
SocketOpen(s) ==
    /\ sockets[s] = "CONNECTING"
    /\ \E throwers \in SUBSET Members(connectionCallbacks) :
          ev' = Event("open", Null, <<notifyConnection(TRUE, throwers)>>,
                      notifyConnection(TRUE, throwers).escaped)
    /\ sockets' = [sockets EXCEPT ![s] = "OPEN"]
    /\ reconnectAttempts' = AttemptsOnOpen
    /\ UNCHANGED <<ws, timers, reconnectTimer, sent, calls, explicitlyClosed,
                   exhausted>>
    /\ UnchangedCallbacks

\* attemptReconnect(url) schedules a timeout
ReconnectSchedules == reconnectAttempts < maxReconnectAttempts

\* what onclose did, in order: the notification, then, if attemptReconnect
\* was reached and scheduled, the timeout and its delay
CloseSteps(runs) ==
    IF runs THEN <<"notifyConnection", "setTimeout", reconnectDelay>>
    ELSE <<"notifyConnection">>

\* ws.onclose of socket s: the close event of a socket that failed to
\* connect, that the peer or the network closed, or whose close() completed
SocketClose(s, cap) ==
    /\ sockets[s] \in {"CONNECTING", "OPEN", "CLOSING"}
    /\ ReconnectSchedules => Cardinality(timers) < cap
    /\ sockets' = Release([sockets EXCEPT ![s] = "CLOSED"], ws)
    /\ \E throwers \in SUBSET Members(connectionCallbacks) :
         LET note == notifyConnection(FALSE, throwers)
             runs == ~note.escaped /\ ReconnectSchedules
         IN  /\ reconnectAttempts' =
                    IF runs THEN reconnectAttempts + 1 ELSE reconnectAttempts
             /\ timers' = IF runs THEN timers \cup {NewTimer} ELSE timers
             /\ reconnectTimer' = IF runs THEN NewTimer ELSE reconnectTimer
             /\ ev' = Event("close", CloseSteps(runs), <<note>>, note.escaped)
             /\ exhausted' = (exhausted \/ (~note.escaped /\ ~ReconnectSchedules))
    /\ UNCHANGED <<ws, sent, calls, explicitlyClosed>>
    /\ UnchangedCallbacks

\* disconnect()
Disconnect ==
    /\ timers' = IF reconnectTimer # Null THEN timers \ {reconnectTimer} ELSE timers
    /\ reconnectTimer' = Null
    /\ sockets' = IF ws # Null
                  THEN Release([sockets EXCEPT ![ws] = CloseCall(sockets[ws])], Null)
                  ELSE sockets
    /\ ws' = Null
    /\ reconnectAttempts' = 0
    /\ \E throwers \in SUBSET Members(connectionCallbacks) :
          ev' = Event("disconnect", Null, <<notifyConnection(FALSE, throwers)>>,
                      notifyConnection(FALSE, throwers).escaped)
    /\ explicitlyClosed' = TRUE
    /\ UNCHANGED <<sent, calls, exhausted>>
    /\ UnchangedCallbacks

\* a guard that looks at the handle and not at its readyState
SendControlTransmits_handleOnly == ws # Null

\* sendControl(control) transmits
SendControlTransmits == IsOpen(sockets, ws)

\* the transports' outbox after sendControl(c)
SentAfter(c) ==
    IF SendControlTransmits
    THEN Append(sent, [type |-> "control", data |-> c])
    ELSE sent

\* sendControl(control), called by the user of the service
SendControl(c) ==
    /\ calls < MaxCalls
    /\ sent' = SentAfter(c)
    /\ calls' = calls + 1
    /\ ev' = Event("sendControl", Null, <<>>, FALSE)
    /\ UNCHANGED <<sockets, ws, timers, reconnectTimer, reconnectAttempts,
                   explicitlyClosed, exhausted>>
    /\ UnchangedCallbacks

UnchangedSession ==
    UNCHANGED <<sockets, ws, timers, reconnectTimer, reconnectAttempts, sent,
                calls, explicitlyClosed, exhausted>>

\* JSON.parse(data) returns
Parses(msg) == msg.type # "unparsable"

\* a test that takes every parsed message for a state message
IsMachineState_anyParsed(msg) == Parses(msg)

\* message.type === 'machine_state'
IsMachineState(msg) == Parses(msg) /\ msg.type = "machine_state"

\* the console.log of the state reads state.connected, which throws a
\* TypeError when message.data is absent or null
StateReadable(msg) == msg.data # NoData

\* a test that delivers the diagnosis member whatever it holds
CarriesDiagnosis_always(msg) == TRUE

\* if (message.diagnosis)
CarriesDiagnosis(msg) == msg.diagnosis # NoDiagnosis

\* the notifications handleMessage makes for msg, in order; whatever its
\* body throws ends the body and is caught by its try block
MessageNotes(msg, stateThrowers, diagThrowers) ==
    LET stateNote == notifyMachineState(msg.data, stateThrowers)
        diagNote == notifyDiagnosis(msg.diagnosis, diagThrowers)
    IN  IF ~IsMachineState(msg) \/ ~StateReadable(msg) THEN <<>>
        ELSE IF stateNote.escaped \/ ~CarriesDiagnosis(msg) THEN <<stateNote>>
        ELSE <<stateNote, diagNote>>

\* ws.onmessage of socket s: handleMessage(event.data).  The browser
\* delivers messages only while the socket is OPEN.
HandleMessage(s, msg) ==
    /\ sockets[s] = "OPEN"
    /\ \E stateThrowers \in SUBSET Members(machineStateCallbacks),
          diagThrowers \in SUBSET Members(diagnosisCallbacks) :
          ev' = Event("message", msg,
                      MessageNotes(msg, stateThrowers, diagThrowers), FALSE)
    /\ UnchangedSession
    /\ UnchangedCallbacks

\* onMachineState(callback)
OnMachineState(cb) ==
    /\ machineStateCallbacks' = SetAdd(machineStateCallbacks, cb)
    /\ closures' = closures \cup {<<"state", cb>>}
    /\ ev' = Event("onMachineState", <<"state", cb>>, <<>>, FALSE)
    /\ UNCHANGED <<connectionCallbacks, diagnosisCallbacks>>
    /\ UnchangedSession

\* a reading of the connectivity that looks at the handle only
CurrentConnectivity_handleOnly == ws # Null

\* this.ws?.readyState === WebSocket.OPEN, as onConnection reads it
CurrentConnectivity == IsOpen(sockets, ws)

\* onConnection(callback): the callback is added, then called with the
\* current connectivity, outside any try block; the closure is returned
\* if the call returns
OnConnection(cb) ==
    /\ connectionCallbacks' = SetAdd(connectionCallbacks, cb)
    /\ \E throwers \in SUBSET {cb} :
         LET r == ForEach(<<cb>>, throwers, FALSE)
         IN  /\ ev' = Event("onConnection", <<"connection", cb>>,
                            <<Note("connection", CurrentConnectivity, <<cb>>,
                                   throwers, r)>>,
                            r.escaped)
             /\ closures' = IF r.escaped THEN closures
                             ELSE closures \cup {<<"connection", cb>>}
    /\ UNCHANGED <<machineStateCallbacks, diagnosisCallbacks>>
    /\ UnchangedSession

\* onDiagnosis(callback)
OnDiagnosis(cb) ==
    /\ diagnosisCallbacks' = SetAdd(diagnosisCallbacks, cb)
    /\ closures' = closures \cup {<<"diagnosis", cb>>}
    /\ ev' = Event("onDiagnosis", <<"diagnosis", cb>>, <<>>, FALSE)
    /\ UNCHANGED <<machineStateCallbacks, connectionCallbacks>>
    /\ UnchangedSession

\* somebody holds the unsubscribe closure an on* method returned for cb,
\* and can call it at any time and any number of times
HoldsClosure(kind, cb) == <<kind, cb>> \in closures

\* the closure returned by onMachineState(cb) is called
UnsubscribeState(cb) ==
    /\ HoldsClosure("state", cb)
    /\ machineStateCallbacks' = SetDelete(machineStateCallbacks, cb)
    /\ ev' = Event("unsubscribe", <<"state", cb>>, <<>>, FALSE)
    /\ UNCHANGED <<connectionCallbacks, diagnosisCallbacks, closures>>
    /\ UnchangedSession

\* the closure returned by onConnection(cb) is called
UnsubscribeConnection(cb) ==
    /\ HoldsClosure("connection", cb)
    /\ connectionCallbacks' = SetDelete(connectionCallbacks, cb)
    /\ ev' = Event("unsubscribe", <<"connection", cb>>, <<>>, FALSE)
    /\ UNCHANGED <<machineStateCallbacks, diagnosisCallbacks, closures>>
    /\ UnchangedSession

\* the closure returned by onDiagnosis(cb) is called
UnsubscribeDiagnosis(cb) ==
    /\ HoldsClosure("diagnosis", cb)
    /\ diagnosisCallbacks' = SetDelete(diagnosisCallbacks, cb)
    /\ ev' = Event("unsubscribe", <<"diagnosis", cb>>, <<>>, FALSE)
    /\ UNCHANGED <<machineStateCallbacks, connectionCallbacks, closures>>
    /\ UnchangedSession

(***************************************************************************)
(* The App component: control updates (src/unnamed/part_001).              *)
(* Setpoints are held in tenths where the source holds one decimal.        *)
(***************************************************************************)
WorkMode == [MANUAL |-> 0, AUTO |-> 1]

ControlCommand ==
    [NONE |-> 0, START |-> 1, RESET |-> 2, EMERGENCY_STOP |-> 3, SHUTDOWN |-> 4]

\* the four command buttons
CommandButtons ==
    {ControlCommand.START, ControlCommand.RESET,
     ControlCommand.EMERGENCY_STOP, ControlCommand.SHUTDOWN}

INITIAL_CONTROL_STATE ==
    [mode |-> WorkMode.MANUAL, command |-> ControlCommand.NONE,
     forceInletValve |-> FALSE, forcePurgeValve |-> FALSE,
     forceHeater |-> FALSE, forceFan1 |-> FALSE, forceFan2 |-> FALSE,
     fan1TargetSpeed |-> 50, dcfTargetVoltage |-> 240, dcfTargetCurrent |-> 50]

InitApp ==
    /\ control = INITIAL_CONTROL_STATE
    /\ clearTimers = <<>>
    /\ updates = 0

\* { ...c, ...upd }
Merge(c, upd) ==
    [k \in DOMAIN c |-> IF k \in DOMAIN upd THEN upd[k] ELSE c[k]]

\* Object.keys(updates).some(key => control[key] !== updates[key])
HasChanged(c, upd) == \E k \in DOMAIN upd : c[k] # upd[k]

\* handleControlUpdate(updates) of the render whose control is c: the state
\* it sets, what it transmits, and the session's record of the call
HandleControlUpdate(c, upd) ==
    IF HasChanged(c, upd)
    THEN /\ control' = Merge(c, upd)
         /\ sent' = SentAfter(Merge(c, upd))
         /\ calls' = calls + 1
         /\ ev' = Event("sendControl", Null, <<>>, FALSE)
    ELSE UNCHANGED <<control, sent, calls, ev>>

UnchangedTransport ==
    /\ UNCHANGED <<sockets, ws, timers, reconnectTimer, reconnectAttempts,
                   explicitlyClosed, exhausted>>
    /\ UnchangedCallbacks
    /\ UNCHANGED <<logVars, aggVars, extVars>>

\* handleCommand(cmd): a command button is pressed.  The handler belongs to
\* the current render, so its control is the current state; the timeout it
\* sets calls the handleControlUpdate of that same render.
HandleCommand(cmd) ==
    /\ updates < MaxUpdates
    /\ updates' = updates + 1
    /\ HandleControlUpdate(control, [command |-> cmd])
    /\ clearTimers' = Append(clearTimers, control)
    /\ UnchangedTransport

\* the 200 ms timeout of handleCommand fires:
\* handleControlUpdate({ command: NONE }) of the render that set it
CommandClear ==
    /\ clearTimers # <<>>
    /\ HandleControlUpdate(Head(clearTimers), [command |-> ControlCommand.NONE])
    /\ clearTimers' = Tail(clearTimers)
    /\ UNCHANGED updates
    /\ UnchangedTransport

\* the panel's other controls: the mode buttons, a force toggle, the fan
\* speed slider
PanelUpdates ==
    {[mode |-> WorkMode.MANUAL], [mode |-> WorkMode.AUTO],
     [forceHeater |-> ~control.forceHeater],
     [fan1TargetSpeed |-> 80]}

PanelUpdate(upd) ==
    /\ updates < MaxUpdates
    /\ updates' = updates + 1
    /\ HandleControlUpdate(control, upd)
    /\ UNCHANGED clearTimers
    /\ UnchangedTransport

(***************************************************************************)
(* The App component: the buffered CSV log (src/unnamed/part_001).         *)
(* handleToggleLog is an async function: each await is a point where the   *)
(* flush timer, a snapshot or a teardown can run before it resumes.  A     *)
(* line is a number: two snapshots never share a line.  A write hands its  *)
(* text to the stream when it is called; its promise settles later.        *)
(***************************************************************************)
InitLog ==
    /\ mounted = TRUE
    /\ isLogging = FALSE
    /\ writableStreamRef = Null
    /\ streamState = "none"
    /\ bufferRef = <<>>
    /\ written = <<>>
    /\ togglePc = "idle"
    /\ writeOk = TRUE
    /\ lastExit = "none"
    /\ nextLine = 1
    /\ logEv = [op |-> "new", landed |-> FALSE, failed |-> 0]

\* the record of a log handler that wrote nothing
Ran(op) == [op |-> op, landed |-> FALSE, failed |-> logEv.failed]

UnchangedButLog == UNCHANGED <<wsVars, ctlVars, aggVars, extVars>>

\* the data logging collection effect, body: bufferRef.current.push(line)
CollectedBuffer == IF isLogging THEN Append(bufferRef, nextLine) ELSE bufferRef

\* handleToggleLog() while not logging.  outcome: "unsupported" (no
\* showSaveFilePicker), "cancelled" (AbortError), "failed" (another
\* rejection), "ok".  Nothing is awaited that another handler could change.
\* Setting isLogging re-runs the collection effect, which pushes a line for
\* the machine state at hand.
StartLogging(outcome) ==
    /\ mounted /\ ~isLogging /\ togglePc = "idle"
    /\ nextLine <= MaxLines
    /\ IF outcome = "ok"
       THEN /\ writableStreamRef' = 1
            /\ streamState' = "open"
            /\ written' = <<>>
            /\ isLogging' = TRUE
            /\ bufferRef' = Append(bufferRef, nextLine)
            /\ nextLine' = nextLine + 1
            /\ lastExit' = "none"
       ELSE UNCHANGED <<writableStreamRef, streamState, written, isLogging,
                        bufferRef, nextLine, lastExit>>
    /\ logEv' = Ran("start")
    /\ UNCHANGED <<mounted, togglePc, writeOk>>
    /\ UnchangedButLog

\* the data logging collection effect runs because machine changed
CollectionEffect(op) ==
    /\ mounted
    /\ nextLine <= MaxLines
    /\ bufferRef' = CollectedBuffer
    /\ nextLine' = IF isLogging THEN nextLine + 1 ELSE nextLine
    /\ logEv' = Ran(op)
    /\ UNCHANGED <<mounted, isLogging, writableStreamRef, streamState, written,
                   togglePc, writeOk, lastExit>>
    /\ UnchangedButLog

\* a state snapshot arrives: setMachine(state), and the collection effect
\* runs for the new machine state
LogCollect == CollectionEffect("snapshot")

\* the connectivity callback is called with false:
\* setMachine(prev => ({ ...prev, connected: false })) makes a new machine
\* object, and the collection effect runs for it
LogConnectionLost == CollectionEffect("connectionLost")

\* stream.write(chunk): the stream takes the chunk if it is open and the
\* write does not fail
WriteLands(ok) == ok /\ streamState = "open"

\* a tick that leaves the lines in the buffer after reading them
SwappedBuffer_kept == bufferRef

\* bufferRef.current = [] of the flush tick
SwappedBuffer == <<>>

\* the flush interval fires.  The interval exists while the component is
\* mounted; its closure reads the isLogging of the render that set it up,
\* and the effect is set up again whenever isLogging changes.
FlushTick(ok) ==
    /\ mounted
    /\ isLogging /\ writableStreamRef # Null /\ bufferRef # <<>>
    /\ bufferRef' = SwappedBuffer
    /\ written' = IF WriteLands(ok) THEN written \o bufferRef ELSE written
    /\ logEv' = [op |-> "flush", landed |-> WriteLands(ok),
                 failed |-> IF WriteLands(ok) THEN logEv.failed
                            ELSE logEv.failed + 1]
    /\ UNCHANGED <<mounted, isLogging, writableStreamRef, streamState,
                   togglePc, writeOk, lastExit, nextLine>>
    /\ UnchangedButLog

\* handleToggleLog() while logging, up to its first await
StopBegin(ok) ==
    /\ mounted /\ isLogging /\ togglePc = "idle"
    /\ IF writableStreamRef = Null
       THEN /\ isLogging' = FALSE
            /\ lastExit' = "stopped"
            /\ UNCHANGED <<written, togglePc, writeOk, streamState>>
       ELSE IF bufferRef # <<>>
       THEN /\ written' = IF WriteLands(ok) THEN written \o bufferRef ELSE written
            /\ writeOk' = WriteLands(ok)
            /\ togglePc' = "stopWriting"
            /\ UNCHANGED <<isLogging, lastExit, streamState>>
       ELSE /\ streamState' = IF streamState = "open" THEN "closing" ELSE streamState
            /\ togglePc' = "stopClosing"
            /\ UNCHANGED <<isLogging, lastExit, written, writeOk>>
    /\ logEv' = Ran("stop")
    /\ UNCHANGED <<mounted, writableStreamRef, bufferRef, nextLine>>
    /\ UnchangedButLog

\* the write handleToggleLog awaits settles: bufferRef.current = [] and
\* close() is called, or the catch block runs
StopWriteSettles ==
    /\ togglePc = "stopWriting"
    /\ IF writeOk
       THEN /\ bufferRef' = <<>>
            /\ streamState' = IF streamState = "open" THEN "closing" ELSE streamState
            /\ togglePc' = "stopClosing"
            /\ UNCHANGED lastExit
       ELSE /\ togglePc' = "idle"
            /\ lastExit' = "stopFailed"
            /\ UNCHANGED <<bufferRef, streamState>>
    /\ logEv' = Ran("stopWritten")
    /\ UNCHANGED <<mounted, isLogging, writableStreamRef, written, writeOk, nextLine>>
    /\ UnchangedButLog

\* the close() handleToggleLog awaits settles: the reference is dropped and
\* isLogging cleared, or the catch block runs
StopCloseSettles(ok) ==
    /\ togglePc = "stopClosing"
    /\ togglePc' = "idle"
    /\ IF ok /\ streamState = "closing"
       THEN /\ streamState' = "closed"
            /\ writableStreamRef' = Null
            /\ isLogging' = FALSE
            /\ lastExit' = "stopped"
       ELSE /\ streamState' = "errored"
            /\ lastExit' = "stopFailed"
            /\ UNCHANGED <<writableStreamRef, isLogging>>
    /\ logEv' = Ran("stopClosed")
    /\ UNCHANGED <<mounted, bufferRef, written, writeOk, nextLine>>
    /\ UnchangedButLog

\* the component is torn down: the cleanup of the flush effect clears the
\* interval; no cleanup touches the stream or the buffer
Unmount ==
    /\ mounted
    /\ mounted' = FALSE
    /\ lastExit' = IF isLogging /\ togglePc = "idle" THEN "teardown" ELSE lastExit
    /\ logEv' = Ran("unmount")
    /\ UNCHANGED <<isLogging, writableStreamRef, streamState, bufferRef, written,
                   togglePc, writeOk, nextLine>>
    /\ UnchangedButLog

(***************************************************************************)
(* The App component: the fault log (src/unnamed/part_001).                *)
(* Time is Date.now() in ms.  The clock is UTC; a day of the model's       *)
(* calendar stands for today's date.                                       *)
(***************************************************************************)
MsPerSecond == 10 * 10 * 10

MsPerDay == 24 * 60 * 60 * MsPerSecond

\* the fault codes a snapshot carries: 0 is "no fault"
FaultCodes == {0, 1, 16}

FaultLevels == {1, 2}

\* new Date().toLocaleTimeString('zh-CN', { hour12: false }): the time of
\* day, to the second.  Held as the second of the day.
ToLocaleTimeString(t) == (t \div MsPerSecond) % (24 * 60 * 60)

\* new Date('1970/01/01 ' + time).getTime(): that time of day on the first
\* day of the epoch
ParseOn1970(time) == time * MsPerSecond

\* the test that lets an entry in: no entry yet, another code, or the last
\* entry's time more than 2000 ms back
FaultLogAdmits(prev, code, t) ==
    \/ prev = <<>>
    \/ prev[1].code # code
    \/ t - ParseOn1970(prev[1].time) > FaultRepeatMs

\* a prepend without the slice
Prepend_uncapped(entry, prev) == <<entry>> \o prev

\* [newLog, ...prev].slice(0, 50)
Prepend(entry, prev) ==
    LET all == <<entry>> \o prev
    IN  IF Len(all) > FaultLogCap THEN SubSeq(all, 1, FaultLogCap) ELSE all

\* the setFaultLogs updater for a machine state carrying code and level
FaultLogsAfter(prev, code, level, t) ==
    IF FaultLogAdmits(prev, code, t)
    THEN Prepend([id |-> t, time |-> ToLocaleTimeString(t),
                  level |-> level, code |-> code], prev)
    ELSE prev

\* the time the component is mounted: 00:59:59 today
MountTime == DaysSinceEpoch * MsPerDay + 3599 * MsPerSecond

InitAgg ==
    /\ now = MountTime
    /\ faultLogs = <<>>
    /\ snapshots = 0

UnchangedButAgg == UNCHANGED <<wsVars, ctlVars, logVars, extVars>>

\* time passes
ClockAdvance(d) ==
    /\ now + d <= MountTime + MaxElapsedMs
    /\ now' = now + d
    /\ UNCHANGED <<faultLogs, snapshots>>
    /\ UnchangedButAgg

\* the history and fault effect runs for a new machine state, the session
\* being connected: the fault part
FaultEffect(code, level) ==
    /\ snapshots < MaxSnapshots
    /\ snapshots' = snapshots + 1
    /\ faultLogs' = IF code # 0
                    THEN FaultLogsAfter(faultLogs, code, level, now)
                    ELSE faultLogs
    /\ UNCHANGED now
    /\ UnchangedButAgg

(***************************************************************************)
(* The App component: the chart history (src/unnamed/part_001).            *)
(* The history effect depends on [machine, isConnected]: it runs whenever  *)
(* the machine object or the flag changes, and returns at once while the   *)
(* flag is false.  Of the three channels of a point one is held, as the    *)
(* name of the machine state it was taken from.                            *)
(***************************************************************************)
InitHistory ==
    /\ history = <<>>
    /\ isConnected = FALSE
    /\ histEv = "new"
    /\ histUpdates = 0

\* Math.round(ms / 1000)
RoundSeconds(ms) == (ms + 500) \div MsPerSecond

\* prev.filter(p => (now - p.timestamp) / 1000 <= maxSeconds)
Retained(prev, t) ==
    SelectSeq(prev, LAMBDA p : t - p.timestamp <= maxSeconds * MsPerSecond)

\* a base time taken from the history before the filter
BaseTime_unfiltered(kept, prev, t) ==
    IF prev # <<>> THEN prev[1].timestamp ELSE t

\* filteredHistory.length > 0 ? filteredHistory[0].timestamp : now
BaseTime(kept, prev, t) ==
    IF kept # <<>> THEN kept[1].timestamp ELSE t

\* the setHistory updater at time t for the machine state sample
HistoryAfter(prev, t, sample) ==
    LET kept == Retained(prev, t)
        base == BaseTime(kept, prev, t)
        all == Append(kept, [time |-> RoundSeconds(t - base), timestamp |-> t,
                             voltage |-> sample])
    IN  [i \in 1..Len(all) |->
            [all[i] EXCEPT !.time = RoundSeconds(all[i].timestamp - base)]]

UnchangedButHistory ==
    UNCHANGED <<wsVars, ctlVars, logVars, faultLogs, snapshots, codecVars>>

\* the history effect runs, the flag being connected after the render
HistoryEffect(op, connected, sample) ==
    /\ histUpdates < MaxPoints
    /\ histUpdates' = histUpdates + 1
    /\ isConnected' = connected
    /\ history' = IF connected THEN HistoryAfter(history, now, sample) ELSE history
    /\ histEv' = op
    /\ UNCHANGED now
    /\ UnchangedButHistory

\* a state snapshot arrives while subscribed: setMachine(state)
HistorySnapshot(state) ==
    /\ isConnected
    /\ HistoryEffect("snapshot", TRUE, state)

\* the connection is switched on: setIsConnected(true), and onConnection
\* calls its callback at once, which sets a new machine object
HistoryToggleOn ==
    /\ ~isConnected
    /\ HistoryEffect("toggleOn", TRUE, "held")

\* the connection is switched off: setIsConnected(false) and
\* setMachine(INITIAL_MACHINE_STATE)
HistoryToggleOff ==
    /\ isConnected
    /\ HistoryEffect("toggleOff", FALSE, "held")

\* the connectivity callback is called with false while subscribed:
\* setMachine(prev => ({ ...prev, connected: false }))
HistoryConnectionLost ==
    /\ isConnected
    /\ HistoryEffect("connectionLost", TRUE, "held")

\* time passes, up to minutes
LongWait(d) ==
    /\ now + d <= MountTime + MaxWaitMs
    /\ now' = now + d
    /\ UNCHANGED <<histVars>>
    /\ UnchangedButHistory

(***************************************************************************)
(* The frame codec (src/services/canProtocol.ts).  A payload is a sequence *)
(* of bytes; reading a Uint8Array past its end gives undefined, and        *)
(* arithmetic on undefined gives NaN, while the bit operators take         *)
(* undefined for 0.  Decoded quantities are held as integers in the unit   *)
(* of their last printed digit (toFixed): volts in hundredths, amperes,    *)
(* watts, degrees and percent in tenths.  Products and quotients are       *)
(* taken exactly.                                                          *)
(***************************************************************************)
Undefined == 0 - 1

NaN == 0 - 2

IsNumber(x) == x # Undefined /\ x # NaN

\* data[offset]
At(data, offset) == IF offset + 1 <= Len(data) THEN data[offset + 1] ELSE Undefined

\* x + y
Plus(x, y) == IF IsNumber(x) /\ IsNumber(y) THEN x + y ELSE NaN

\* x * y
Times(x, y) == IF IsNumber(x) /\ IsNumber(y) THEN x * y ELSE NaN

\* x << 8
ShiftLeft8(x) == IF IsNumber(x) THEN x * 256 ELSE 0

\* (x >> shift) & mask, mask being 2^bits - 1
Bits(x, shift, bits) == IF IsNumber(x) THEN (x \div (2 ^ shift)) % (2 ^ bits) ELSE 0

getUint16(data, offset) == Plus(At(data, offset), ShiftLeft8(At(data, offset + 1)))

getInt16(data, offset) ==
    LET val == getUint16(data, offset)
    IN  IF IsNumber(val) /\ val > 32767 THEN val - 65536 ELSE val

\* x / y rounded to the nearest integer, halves up, for x >= 0 and y > 0
RoundDiv(x, y) == (2 * x + y) \div (2 * y)

INITIAL_MACHINE_STATE ==
    [connected |-> FALSE, lastUpdate |-> 0,
     status |-> [heartbeat |-> 0, state |-> 0, faultLevel |-> 0],
     power |-> [stackVoltage |-> 0, stackCurrent |-> 0, stackPower |-> 0,
                dcfOutVoltage |-> 0, dcfOutCurrent |-> 0, dcfPower |-> 0,
                dcfEfficiency |-> 0],
     sensors |-> [stackTemp |-> 250, ambientTemp |-> 250,
                  h2CylinderPressure |-> 0, h2InletPressure |-> 0,
                  h2Concentration |-> 0],
     io |-> [h2InletValve |-> FALSE, h2PurgeValve |-> FALSE,
             proportionalValve |-> FALSE, heater |-> FALSE, fan1 |-> FALSE,
             fan2 |-> FALSE, fan1Duty |-> 0, dcfMosTemp |-> 250,
             faultCode |-> 0]]

parseMsg1_Status(data, current) ==
    [current EXCEPT
        !.status = [heartbeat |-> At(data, 0),
                    state |-> Bits(At(data, 1), 0, 2),
                    faultLevel |-> Bits(At(data, 1), 2, 2)],
        !.lastUpdate = now]

\* power in tenths of a watt, from hundredths of a volt times tenths of an
\* ampere
PowerTenths(v, i) == IF IsNumber(Times(v, i)) THEN RoundDiv(v * i, 100) ELSE NaN

\* eff, in tenths of a percent:
\* let eff = stackP > 0 ? (dcfP / stackP) * 100 : 0; if (eff > 100) eff = 99.9
Efficiency(stackP, dcfP) ==
    IF ~(IsNumber(stackP) /\ stackP > 0) THEN 0
    ELSE IF ~IsNumber(dcfP) THEN NaN
    ELSE IF dcfP > stackP THEN 999
    ELSE RoundDiv(1000 * dcfP, stackP)

parseMsg2_Power(data, current) ==
    LET stackV == getUint16(data, 0)
        stackI == getUint16(data, 2)
        dcfV == getUint16(data, 4)
        dcfI == getUint16(data, 6)
    IN  [current EXCEPT
            !.power = [stackVoltage |-> stackV,
                       stackCurrent |-> stackI,
                       stackPower |-> PowerTenths(stackV, stackI),
                       dcfOutVoltage |-> dcfV,
                       dcfOutCurrent |-> dcfI,
                       dcfPower |-> PowerTenths(dcfV, dcfI),
                       dcfEfficiency |-> Efficiency(Times(stackV, stackI),
                                                    Times(dcfV, dcfI))]]

parseMsg3_Sensors(data, current) ==
    [current EXCEPT
        !.sensors = [stackTemp |-> Plus(getInt16(data, 0), 0 - 400),
                     ambientTemp |-> Plus(getInt16(data, 2), 0 - 400),
                     h2CylinderPressure |-> getUint16(data, 4),
                     h2InletPressure |-> Times(At(data, 6), 1),
                     h2Concentration |-> Times(At(data, 7), 5)]]

parseMsg4_IO(data, current) ==
    [current EXCEPT
        !.io = [h2InletValve |-> Bits(At(data, 0), 0, 1) = 1,
                h2PurgeValve |-> Bits(At(data, 0), 1, 1) = 1,
                proportionalValve |-> Bits(At(data, 0), 2, 1) = 1,
                heater |-> Bits(At(data, 0), 3, 1) = 1,
                fan1 |-> Bits(At(data, 0), 4, 1) = 1,
                fan2 |-> Bits(At(data, 0), 5, 1) = 1,
                fan1Duty |-> At(data, 1),
                dcfMosTemp |-> Plus(getInt16(data, 2), 0 - 400),
                faultCode |-> getUint16(data, 4)]]

Flag(b, bit) == IF b THEN bit ELSE 0

\* a byte 1 that takes the force flags in either mode
Byte1_anyMode(c) ==
    Flag(c.forceInletValve, 1) + Flag(c.forcePurgeValve, 2)
    + Flag(c.forceHeater, 4) + Flag(c.forceFan1, 8) + Flag(c.forceFan2, 16)

\* data[1]: the force flags in Manual mode, the 0 of fill(0) otherwise
Byte1(c) ==
    IF c.mode = WorkMode.MANUAL
    THEN Flag(c.forceInletValve, 1) + Flag(c.forcePurgeValve, 2)
         + Flag(c.forceHeater, 4) + Flag(c.forceFan1, 8) + Flag(c.forceFan2, 16)
    ELSE 0

Clamp(x, lo, hi) == IF x < lo THEN lo ELSE IF x > hi THEN hi ELSE x

\* the setpoints of c are in tenths, so Math.round(v * 10) is the value held
generateControlPacket(c) ==
    [id |-> 419369120,
     data |-> <<Flag(c.mode = WorkMode.AUTO, 1) + Bits(c.command, 0, 3) * 4,
                Byte1(c),
                Clamp(c.fan1TargetSpeed, 0, 100),
                Bits(c.dcfTargetVoltage, 0, 8), Bits(c.dcfTargetVoltage, 8, 8),
                Bits(c.dcfTargetCurrent, 0, 8), Bits(c.dcfTargetCurrent, 8, 8),
                0>>]

(***************************************************************************)
(* The inputs the codec is applied to.                                      *)
(***************************************************************************)
\* the two bytes of a 16-bit value, low byte first
LittleEndian(v) == <<v % 256, v \div 256>>

RawSamples == {0, 1, 256, MaxRaw}

PowerFrames ==
    {LittleEndian(a) \o LittleEndian(b) \o LittleEndian(c) \o LittleEndian(d) :
        a \in RawSamples, b \in RawSamples, c \in RawSamples, d \in RawSamples}

StatusFrames == {<<hb, b1, 0, 0, 0, 0, 0, 0>> : hb \in {0, 255}, b1 \in {0, 6, 15}}

SensorFrames ==
    {LittleEndian(t) \o LittleEndian(650) \o LittleEndian(p) \o <<50, c>> :
        t \in {1000, 65535}, p \in {0, 1200}, c \in {0, 3}}

IOFrames ==
    {<<flags, 65>> \o LittleEndian(850) \o LittleEndian(code) \o <<0, 0>> :
        flags \in {0, 49, 63}, code \in {0, 16, 273}}

\* the payload lengths that are not 8
BadLengths == {0, 1, 7, 9}

Resized(frame, len) ==
    IF len <= Len(frame) THEN SubSeq(frame, 1, len)
    ELSE frame \o [i \in 1..(len - Len(frame)) |-> 0]

WithBadLengths(frames) ==
    frames \cup {Resized(f, len) : f \in frames, len \in BadLengths}

ControlInputs ==
    [mode : {WorkMode.MANUAL, WorkMode.AUTO}, command : 0..4,
     forceInletValve : BOOLEAN, forcePurgeValve : BOOLEAN,
     forceHeater : BOOLEAN, forceFan1 : BOOLEAN, forceFan2 : BOOLEAN,
     fan1TargetSpeed : {50, 130}, dcfTargetVoltage : {240, 300},
     dcfTargetCurrent : {50}]

FrameKinds == {"status", "power", "sensors", "io"}

NoInput == [kind |-> "none", data |-> <<>>, control |-> INITIAL_CONTROL_STATE]

FrameInput(kind, frame) ==
    [kind |-> kind, data |-> frame, control |-> INITIAL_CONTROL_STATE]

CodecInputs ==
    {FrameInput("status", f) : f \in WithBadLengths(StatusFrames)}
    \cup {FrameInput("power", f) : f \in WithBadLengths(PowerFrames)}
    \cup {FrameInput("sensors", f) : f \in WithBadLengths(SensorFrames)}
    \cup {FrameInput("io", f) : f \in WithBadLengths(IOFrames)}
    \cup {[kind |-> "control", data |-> <<>>, control |-> c] : c \in ControlInputs}

Pending == [kind |-> "pending"]

InitCodecIdle ==
    /\ codecIn = NoInput
    /\ codecOut = Pending

UnchangedButCodec ==
    UNCHANGED <<wsVars, ctlVars, logVars, aggVars, histVars, codecIn>>

\* a parser is called with the payload and the current MachineState
Parse(kind, state) ==
    /\ codecIn.kind = kind
    /\ codecOut = Pending
    /\ codecOut' = [kind |-> "state", state |-> state]
    /\ UnchangedButCodec

ParseStatus == Parse("status", parseMsg1_Status(codecIn.data, INITIAL_MACHINE_STATE))

ParsePower == Parse("power", parseMsg2_Power(codecIn.data, INITIAL_MACHINE_STATE))

ParseSensors == Parse("sensors", parseMsg3_Sensors(codecIn.data, INITIAL_MACHINE_STATE))

ParseIO == Parse("io", parseMsg4_IO(codecIn.data, INITIAL_MACHINE_STATE))

\* generateControlPacket is called with a ControlState
GenerateControl ==
    /\ codecIn.kind = "control"
    /\ codecOut = Pending
    /\ codecOut' = [kind |-> "packet", packet |-> generateControlPacket(codecIn.control)]
    /\ UnchangedButCodec

(***************************************************************************)
(* The session and its reconnect policy: every call and event that moves   *)
(* the transport, the timers or the counter, and sendControl.              *)
(***************************************************************************)
OnlySession == UNCHANGED <<ctlVars, logVars, aggVars, extVars>>

Init ==
    InitService /\ InitApp /\ InitLog /\ InitAgg /\ InitHistory /\ InitCodecIdle

Next ==
    \/ Connect(MaxSockets) /\ OnlySession
    \/ Disconnect /\ OnlySession
    \/ \E s \in SocketIds : SocketOpen(s) /\ OnlySession
    \/ \E s \in SocketIds : SocketClose(s, MaxTimers) /\ OnlySession
    \/ \E t \in TimerIds : TimerFire(t, MaxSockets) /\ OnlySession
    \/ \E c \in WireControls : SendControl(c) /\ OnlySession

Spec == Init /\ [][Next]_vars

(***************************************************************************)
(* The session and its subscribers: subscriptions, inbound messages and    *)
(* the events that notify, over one transport at a time, within the 2000   *)
(* ms of a reconnect delay (a reconnect that was scheduled stays pending).  *)
(***************************************************************************)
NextPub ==
    \/ Connect(OneSocket) /\ OnlySession
    \/ Disconnect /\ OnlySession
    \/ \E s \in SocketIds : SocketOpen(s) /\ OnlySession
    \/ \E s \in SocketIds : SocketClose(s, OneTimer) /\ OnlySession
    \/ \E s \in SocketIds, msg \in InboundMessages :
          HandleMessage(s, msg) /\ OnlySession
    \/ \E cb \in Callbacks : OnMachineState(cb) /\ OnlySession
    \/ \E cb \in Callbacks : OnConnection(cb) /\ OnlySession
    \/ \E cb \in Callbacks : OnDiagnosis(cb) /\ OnlySession
    \/ \E cb \in Callbacks : UnsubscribeState(cb) /\ OnlySession
    \/ \E cb \in Callbacks : UnsubscribeConnection(cb) /\ OnlySession
    \/ \E cb \in Callbacks : UnsubscribeDiagnosis(cb) /\ OnlySession

SpecPub == Init /\ [][NextPub]_vars

(***************************************************************************)
(* The reconnect policy in front of connectivity subscribers: one          *)
(* transport at a time, every reconnect delay running out.                  *)
(***************************************************************************)
NextRec ==
    \/ Connect(OneSocket) /\ OnlySession
    \/ Disconnect /\ OnlySession
    \/ \E s \in SocketIds : SocketOpen(s) /\ OnlySession
    \/ \E s \in SocketIds : SocketClose(s, OneTimer) /\ OnlySession
    \/ \E t \in TimerIds : TimerFire(t, OneSocket) /\ OnlySession
    \/ \E cb \in Callbacks : OnConnection(cb) /\ OnlySession

SpecRec == Init /\ [][NextRec]_vars

(***************************************************************************)
(* The control panel over a session with one transport at a time.          *)
(***************************************************************************)
NextCtl ==
    \/ \E cmd \in CommandButtons : HandleCommand(cmd)
    \/ CommandClear
    \/ \E upd \in PanelUpdates : PanelUpdate(upd)
    \/ Connect(OneSocket) /\ OnlySession
    \/ \E s \in SocketIds : SocketOpen(s) /\ OnlySession
    \/ \E s \in SocketIds : SocketClose(s, OneTimer) /\ OnlySession
    \/ \E t \in TimerIds : TimerFire(t, OneSocket) /\ OnlySession

SpecCtl == Init /\ [][NextCtl]_vars

(***************************************************************************)
(* The CSV log: start, snapshots, flush ticks, stop, teardown.             *)
(***************************************************************************)
NextLog ==
    \/ \E outcome \in {"unsupported", "cancelled", "failed", "ok"} :
          StartLogging(outcome)
    \/ LogCollect
    \/ LogConnectionLost
    \/ \E ok \in BOOLEAN : FlushTick(ok)
    \/ \E ok \in BOOLEAN : StopBegin(ok)
    \/ StopWriteSettles
    \/ \E ok \in BOOLEAN : StopCloseSettles(ok)
    \/ Unmount

SpecLog == Init /\ [][NextLog]_vars

(***************************************************************************)
(* The fault log: snapshots with and without a fault code, over time.      *)
(***************************************************************************)
NextAgg ==
    \/ \E d \in {500, 1600} : ClockAdvance(d)
    \/ \E code \in FaultCodes, level \in FaultLevels : FaultEffect(code, level)

SpecAgg == Init /\ [][NextAgg]_vars

(***************************************************************************)
(* The chart history: snapshots, the connection switch, connectivity loss, *)
(* over minutes.                                                            *)
(***************************************************************************)
NextHist ==
    \/ \E state \in {"m1"} : HistorySnapshot(state)
    \/ HistoryToggleOn
    \/ HistoryToggleOff
    \/ HistoryConnectionLost
    \/ \E d \in {300500, 600000} : LongWait(d)

SpecHist == Init /\ [][NextHist]_vars

(***************************************************************************)
(* The codec applied to one input: a payload of any of the four kinds,     *)
(* eight bytes long or not, or a ControlState.                              *)
(***************************************************************************)
InitCodec ==
    /\ InitService /\ InitApp /\ InitLog /\ InitAgg /\ InitHistory
    /\ codecIn \in CodecInputs
    /\ codecOut = Pending

NextCodec ==
    \/ ParseStatus
    \/ ParsePower
    \/ ParseSensors
    \/ ParseIO
    \/ GenerateControl

SpecCodec == InitCodec /\ [][NextCodec]_vars

(***************************************************************************)
(* The fault log near its cap.  The component has been up for a while: 49  *)
(* faults were logged, one a second, of alternating codes, the last a      *)
(* second before the clock reading at which this specification starts.     *)
(***************************************************************************)
FilledLog ==
    [i \in 1..(FaultLogCap - 1) |->
        [id |-> MountTime - i * MsPerSecond,
         time |-> ToLocaleTimeString(MountTime - i * MsPerSecond),
         level |-> 1,
         code |-> IF i % 2 = 0 THEN 1 ELSE 16]]

InitFilled ==
    /\ InitService /\ InitApp /\ InitLog /\ InitHistory /\ InitCodecIdle
    /\ now = MountTime
    /\ faultLogs = FilledLog
    /\ snapshots = 0

SpecFill == InitFilled /\ [][NextAgg]_vars

(***************************************************************************)
(* Claims about the session (checked under Spec).                          *)
(***************************************************************************)
\* C2: after disconnect(), and until connect() is called again, no reconnect
\* timer becomes pending and no transport is opened: the close event of the
\* transport disconnect() closed schedules no reconnect.
C2_DisconnectStaysIdle ==
    [][(explicitlyClosed /\ explicitlyClosed')
          => (timers' \subseteq timers /\ LiveSockets' \subseteq LiveSockets)]_vars

\* C3: in every reachable state at most one transport is Connecting or Open.
C3_AtMostOneLiveTransport == Cardinality(LiveSockets) <= 1

\* C4: the attempt counter stays within 0..10; a close event below the
\* budget schedules exactly one reconnect and counts it, a close event at
\* the budget schedules none; and once a close event has found the budget
\* used up, no transport is opened until connect() is called.
C4_ReconnectBounded ==
    [][/\ reconnectAttempts' \in 0..maxReconnectAttempts
       /\ (ev'.op = "close" /\ sockets' # sockets) =>
             IF reconnectAttempts < maxReconnectAttempts
             THEN /\ reconnectAttempts' = reconnectAttempts + 1
                  /\ timers \subseteq timers'
                  /\ Cardinality(timers') = Cardinality(timers) + 1
             ELSE /\ reconnectAttempts' = reconnectAttempts
                  /\ timers' = timers
       /\ (exhausted /\ exhausted') => LiveSockets' \subseteq LiveSockets]_vars

\* C5: disconnect() returns with no reconnect timer pending, no transport
\* handle held, the counter at 0 and every connectivity subscriber notified
\* with false; a second disconnect() right after it changes none of them.
C5_DisconnectClearsAll ==
    [][ev'.op = "disconnect" =>
          /\ timers' = {}
          /\ reconnectTimer' = Null
          /\ ws' = Null
          /\ reconnectAttempts' = 0
          /\ Len(ev'.notes) = 1
          /\ ev'.notes[1].kind = "connection"
          /\ ev'.notes[1].value = FALSE
          /\ ev'.notes[1].delivered = connectionCallbacks
          /\ (ev.op = "disconnect" =>
                 /\ timers' = timers
                 /\ reconnectTimer' = reconnectTimer
                 /\ ws' = ws
                 /\ reconnectAttempts' = reconnectAttempts)]_vars

\* C6: a control message is put on the transport only by a sendControl call
\* made while the transport is Open, one message per such call; a call made
\* in any other state transmits nothing, and no other step (an open event, a
\* reconnect) transmits anything for it later.
C6_SendOnlyWhileOpen ==
    [][/\ sent' # sent =>
             /\ ev'.op = "sendControl"
             /\ calls' = calls + 1
             /\ IsOpen(sockets, ws)
             /\ \E c \in WireControls :
                    sent' = Append(sent, [type |-> "control", data |-> c])
       /\ (calls' # calls /\ ~IsOpen(sockets, ws)) => sent' = sent]_vars

\* C6 witness: an earlier call was made while not Open and dropped; the
\* transport opened later and the call made then was transmitted alone.
C6_Witness ==
    /\ ev.op = "sendControl"
    /\ IsOpen(sockets, ws)
    /\ calls = 2
    /\ Len(sent) = 1

(***************************************************************************)
(* Claims about the command pulse (checked under SpecCtl).                 *)
(***************************************************************************)
\* C1: a command is a momentary pulse: once the 200 ms auto-clear of every
\* press has fired, the local ControlState.command is None again, and,
\* every call having found the transport Open, the last control message
\* transmitted carries command None.
C1_CommandIsMomentary ==
    clearTimers = <<>> =>
        /\ control.command = ControlCommand.NONE
        /\ (calls = Len(sent) /\ sent # <<>>) =>
               sent[Len(sent)].data.command = ControlCommand.NONE

(***************************************************************************)
(* Claims about the fan-out (checked under SpecPub).                       *)
(***************************************************************************)
NotifyingHandlers == {"open", "close", "disconnect", "message"}

\* C10: in every notification of state, connectivity or diagnosis
\* subscribers, every subscribed callback is invoked whichever callbacks
\* fail, and no failure leaves the notification or the handler around it.
C10_FanOutIsolated ==
    ev.op \in NotifyingHandlers =>
        /\ ~ev.threw
        /\ \A i \in 1..Len(ev.notes) :
              /\ ev.notes[i].delivered = ev.notes[i].subscribers
              /\ ~ev.notes[i].escaped

\* C10 witness: a message was delivered to two state subscribers and two
\* diagnosis subscribers although the first of each failed.
C10_Witness ==
    /\ ev.op = "message"
    /\ Len(ev.notes) = 2
    /\ \A i \in 1..2 :
          /\ Len(ev.notes[i].delivered) = 2
          /\ ev.notes[i].delivered[1] \in ev.notes[i].failed

(***************************************************************************)
(* Claims about the CSV log (checked under SpecLog).                       *)
(***************************************************************************)
RECURSIVE Occurrences(_, _)
Occurrences(seq, x) ==
    IF seq = <<>> THEN 0
    ELSE (IF Head(seq) = x THEN 1 ELSE 0) + Occurrences(Tail(seq), x)

\* C7: whichever way logging is left (a stop that succeeds, a stop whose
\* write or close fails, a teardown while logging) no line is left pending
\* and the stream is closed and no longer held.
C7_DestinationReleased ==
    (lastExit # "none" /\ togglePc = "idle") =>
        /\ bufferRef = <<>>
        /\ writableStreamRef = Null
        /\ streamState = "closed"

\* C8: no CSV line is written to the stream more than once.
C8_WrittenOnce == \A n \in 1..MaxLines : Occurrences(written, n) <= 1

(***************************************************************************)
(* Claims about the fault log (checked under SpecAgg).                     *)
(***************************************************************************)
\* C9: an entry is appended only when the log is empty, when the incoming
\* code differs from the most recent entry's code, or when at least 2000 ms
\* have passed since that entry was logged (its id is its Date.now()); so
\* the same code 500 ms later appends nothing.
C9_FaultDedup ==
    [][faultLogs' # faultLogs =>
          \/ faultLogs = <<>>
          \/ faultLogs'[1].code # faultLogs[1].code
          \/ now - faultLogs[1].id >= FaultRepeatMs]_vars

(***************************************************************************)
(* Claims about inbound messages and subscriptions (checked under SpecPub). *)
(***************************************************************************)
\* what one notification of a message did: the kind of subscriber, the
\* value handed over, every subscriber of cbs invoked exactly once
DeliveredOnce(note, kind, value, cbs) ==
    /\ note.kind = kind
    /\ note.value = value
    /\ note.delivered = cbs
    /\ \A cb \in Members(cbs) : Occurrences(note.delivered, cb) = 1

\* the deliveries of a machine_state message: state subscribers first, each
\* once with the data; then, if and only if the message carries diagnosis
\* data, diagnosis subscribers, each once
StateThenDiagnosis ==
    /\ Len(ev.notes) >= 1
    /\ DeliveredOnce(ev.notes[1], "state", ev.arg.data, machineStateCallbacks)
    /\ IF ev.arg.diagnosis # NoDiagnosis
       THEN /\ Len(ev.notes) = 2
            /\ DeliveredOnce(ev.notes[2], "diagnosis", ev.arg.diagnosis,
                             diagnosisCallbacks)
       ELSE Len(ev.notes) = 1

\* C11 as stated: for every inbound message of type machine_state, every
\* subscribed state callback is invoked exactly once with the message's
\* data, and every diagnosis callback exactly once, after the state
\* delivery, if and only if the message carries diagnosis data.
C11_EveryStateMessageDelivered ==
    (ev.op = "message" /\ ev.arg.type = "machine_state") => StateThenDiagnosis

\* C11 as amended: the same for every inbound message of type machine_state
\* whose data member is present (neither absent nor null).
C11_StateMessageWithDataDelivered ==
    (ev.op = "message" /\ ev.arg.type = "machine_state" /\ ev.arg.data # NoData)
        => StateThenDiagnosis

\* C11 witness: a message with data and diagnosis reached two state
\* subscribers and then two diagnosis subscribers.
C11_Witness ==
    /\ ev.op = "message"
    /\ ev.arg = [type |-> "machine_state", data |-> "m2", diagnosis |-> "g1"]
    /\ Len(machineStateCallbacks) = 2
    /\ Len(diagnosisCallbacks) = 2
    /\ Len(ev.notes) = 2
    /\ ev.notes[2].kind = "diagnosis"

\* C12: a message whose type is not machine_state, or that cannot be
\* parsed, is dropped: no subscriber of any kind is invoked and the
\* transport handle, the reconnect counter and the reconnect timer are
\* unchanged.
C12_OtherMessagesDropped ==
    [][(ev'.op = "message" /\ ev'.arg.type # "machine_state") =>
          /\ ev'.notes = <<>>
          /\ ~ev'.threw
          /\ UNCHANGED <<ws, reconnectAttempts, reconnectTimer, timers>>]_vars

\* C12 witness: a message of another type arrived while subscribers of
\* every kind were subscribed.
C12_Witness ==
    /\ ev.op = "message"
    /\ ev.arg.type = "other"
    /\ machineStateCallbacks # <<>>
    /\ connectionCallbacks # <<>>
    /\ diagnosisCallbacks # <<>>

\* the callbacks subscribed for a kind of event
KindCallbacks(kind) ==
    CASE kind = "state" -> machineStateCallbacks
      [] kind = "connection" -> connectionCallbacks
      [] kind = "diagnosis" -> diagnosisCallbacks

\* the same, after the step
KindCallbacksNext(kind) ==
    CASE kind = "state" -> machineStateCallbacks'
      [] kind = "connection" -> connectionCallbacks'
      [] kind = "diagnosis" -> diagnosisCallbacks'

SubscribingHandlers == {"onMachineState", "onConnection", "onDiagnosis"}

\* C16: once an unsubscribe closure has been invoked its callback is out
\* of the set, only a new subscription of it brings it back, an event
\* invokes only callbacks that are in the set, and invoking a closure whose
\* callback is already out changes no set.
C16_UnsubscribeIsFinal ==
    [][/\ ev'.op = "unsubscribe" =>
             /\ ev'.arg[2] \notin Members(KindCallbacksNext(ev'.arg[1]))
             /\ (ev'.arg[2] \notin Members(KindCallbacks(ev'.arg[1]))) =>
                    UNCHANGED <<machineStateCallbacks, connectionCallbacks,
                                diagnosisCallbacks>>
       /\ \A kind \in {"state", "connection", "diagnosis"}, cb \in Callbacks :
             (/\ cb \notin Members(KindCallbacks(kind))
              /\ cb \in Members(KindCallbacksNext(kind)))
                 => (ev'.op \in SubscribingHandlers /\ ev'.arg = <<kind, cb>>)
       /\ ev'.op \in NotifyingHandlers =>
             \A i \in 1..Len(ev'.notes) :
                Members(ev'.notes[i].delivered)
                    \subseteq Members(KindCallbacks(ev'.notes[i].kind))]_vars

\* C16 witness: the closure of state callback 1 was invoked while callback
\* 2 stayed subscribed, and a later message reached callback 2 alone.
C16_Witness ==
    /\ ev.op = "message"
    /\ <<"state", 1>> \in closures
    /\ machineStateCallbacks = <<2>>
    /\ Len(ev.notes) >= 1
    /\ ev.notes[1].delivered = <<2>>

\* C17: onConnection(cb) invokes cb exactly once before it returns, with
\* true if and only if this.ws is Open at that moment.
C17_InitialConnectivity ==
    ev.op = "onConnection" =>
        /\ Len(ev.notes) = 1
        /\ ev.notes[1].kind = "connection"
        /\ ev.notes[1].delivered = <<ev.arg[2]>>
        /\ ev.notes[1].value = IsOpen(sockets, ws)

\* C17 witness: a callback subscribed while the transport was Connecting
\* was called with false.
C17_Witness ==
    /\ ev.op = "onConnection"
    /\ ws # Null
    /\ sockets[ws] = "CONNECTING"
    /\ ev.notes[1].value = FALSE

\* C18: a failure of the callback during onConnection's initial delivery
\* does not leave onConnection, and the unsubscribe closure is returned.
C18_SubscribeNeverThrows ==
    ev.op = "onConnection" =>
        /\ ~ev.threw
        /\ <<"connection", ev.arg[2]>> \in closures

(***************************************************************************)
(* Claims about the flush tick and the collection (checked under SpecLog). *)
(***************************************************************************)
\* C19: a flush tick with logging active and lines pending leaves the
\* buffer empty and hands all of its lines to the stream as one chunk, in
\* the order they arrived; if the write fails the lines are not written,
\* the timer goes on, and lines collected later are written by a later
\* tick.
C19_TickSwapsAndWrites ==
    [][logEv'.op = "flush" =>
          /\ isLogging /\ bufferRef # <<>>
          /\ bufferRef' = <<>>
          /\ written' = IF logEv'.landed THEN written \o bufferRef ELSE written
          /\ mounted' /\ isLogging' /\ writableStreamRef' = writableStreamRef]_vars

\* C19 witness: a tick's write had failed, and a later tick wrote the line
\* that was collected after it.
C19_Witness ==
    /\ logEv.op = "flush"
    /\ logEv.landed
    /\ logEv.failed = 1
    /\ togglePc = "idle"
    /\ written # <<>>
    /\ written[Len(written)] = nextLine - 1

\* C20: a line is appended to the pending buffer only by an incoming
\* snapshot, one line per snapshot while logging is active and none while
\* it is not, and the snapshot writes nothing to the stream.
C20_OneLinePerSnapshot ==
    [][/\ Len(bufferRef') > Len(bufferRef) => logEv'.op = "snapshot"
       /\ logEv'.op = "snapshot" =>
             /\ written' = written
             /\ IF isLogging
                THEN \E line \in 1..MaxLines : bufferRef' = Append(bufferRef, line)
                ELSE bufferRef' = bufferRef]_vars

(***************************************************************************)
(* Claims about the reconnect policy in front of subscribers (checked      *)
(* under SpecRec) and about connect() (checked under Spec).                *)
(***************************************************************************)
\* the step is the close event of a transport nobody asked to close
UnexpectedClose ==
    /\ ev'.op = "close"
    /\ \E s \in SocketIds :
          /\ sockets[s] \in {"CONNECTING", "OPEN"}
          /\ sockets'[s] \in {"CLOSED", "FREE"}

\* C13: on an unexpected close every connectivity subscriber is notified
\* with false, before anything is scheduled; when the counter is below 10,
\* exactly one reconnect is scheduled, with the delay of 2000 ms, and the
\* counter grows by exactly 1.
C13_CloseNotifiesThenSchedules ==
    [][UnexpectedClose =>
          /\ Len(ev'.notes) = 1
          /\ ev'.notes[1].kind = "connection"
          /\ ev'.notes[1].value = FALSE
          /\ ev'.notes[1].delivered = connectionCallbacks
          /\ ev'.arg[1] = "notifyConnection"
          /\ reconnectAttempts < 10 =>
                /\ ev'.arg = <<"notifyConnection", "setTimeout", 2000>>
                /\ reconnectAttempts' = reconnectAttempts + 1
                /\ timers \subseteq timers'
                /\ Cardinality(timers') = Cardinality(timers) + 1]_vars

\* C13 witness: the third failure in a row was reported to two subscribers,
\* one of which failed, and a reconnect is pending.
C13_Witness ==
    /\ ev.op = "close"
    /\ reconnectAttempts = 3
    /\ timers # {}
    /\ Len(ev.notes[1].delivered) = 2
    /\ ev.notes[1].failed # {}

\* C14: whenever a transport reaches Open the counter is 0 and every
\* connectivity subscriber is notified with true; an unexpected close that
\* follows has the whole budget: it schedules a reconnect and counts 1.
C14_OpenResetsCounter ==
    [][/\ (ev'.op = "open" /\ sockets' # sockets) =>
             /\ reconnectAttempts' = 0
             /\ Len(ev'.notes) = 1
             /\ ev'.notes[1].kind = "connection"
             /\ ev'.notes[1].value = TRUE
             /\ ev'.notes[1].delivered = connectionCallbacks
       /\ (ev.op = "open" /\ UnexpectedClose) =>
             /\ reconnectAttempts' = 1
             /\ timers' # timers]_vars

\* C14 witness: a transport opened by a reconnect attempt reached Open in
\* front of two subscribers.
C14_Witness ==
    /\ ev.op = "open"
    /\ reconnectTimer # Null
    /\ reconnectAttempts = 0
    /\ Len(ev.notes[1].delivered) = 2

\* C15: connect() called while the transport is Open creates no transport,
\* keeps the handle, the counter and the timer, and notifies nobody.
C15_ConnectWhileOpenIsNoOp ==
    [][(ev'.op = "connect" /\ IsOpen(sockets, ws)) =>
          /\ UNCHANGED <<sockets, ws, reconnectAttempts, reconnectTimer, timers>>
          /\ ev'.notes = <<>>]_vars

\* C15 witness: connect() was the last call and the transport is Open (a
\* connect() that creates a transport leaves it Connecting).
C15_Witness ==
    /\ ev.op = "connect"
    /\ IsOpen(sockets, ws)

(***************************************************************************)
(* Claims about the fault log at its cap (checked under SpecFill).         *)
(***************************************************************************)
\* the log is ordered newest first: ids (the Date.now() of the entries)
\* do not grow towards the tail
NewestFirst(log) ==
    \A i \in 1..Len(log), j \in 1..Len(log) : i < j => log[i].id >= log[j].id

\* C21: the fault log is ordered newest first and holds at most 50
\* entries; an update that changes it puts exactly one new entry at the
\* front, keeps the entries it had, unmodified and in order, and drops only
\* the oldest, and only when the length would exceed 50.
C21_FaultLogCapped ==
    /\ [](NewestFirst(faultLogs) /\ Len(faultLogs) <= 50)
    /\ [][faultLogs' # faultLogs =>
             /\ Len(faultLogs') = IF Len(faultLogs) < 50 THEN Len(faultLogs) + 1
                                  ELSE 50
             /\ faultLogs'[1].id = now
             /\ \A i \in 2..Len(faultLogs') : faultLogs'[i] = faultLogs[i - 1]]_vars

\* C21 witness: three faults were logged on top of 49; the log holds 50 and
\* the two oldest are gone.
C21_Witness ==
    /\ Len(faultLogs) = 50
    /\ faultLogs[1].id = now
    /\ faultLogs[50] = FilledLog[47]

(***************************************************************************)
(* Further claims about the CSV log (checked under SpecLog).               *)
(***************************************************************************)
\* C27: no line is lost across stop(): unless a write fails, a line leaves
\* the pending buffer only by being written to the stream, also a line
\* that was appended while stop()'s final write was in flight.
C27_NoLineLostAcrossStop ==
    [][(logEv.failed = 0 /\ logEv'.failed = 0 /\ writeOk /\ writeOk') =>
          \A i \in 1..Len(bufferRef) :
             bufferRef[i] \in Members(bufferRef') \cup Members(written')]_vars

(***************************************************************************)
(* Further claims about control updates (checked under SpecCtl).           *)
(***************************************************************************)
\* the step is the 200 ms auto-clear of a command
AutoClearStep == clearTimers # <<>> /\ clearTimers' = Tail(clearTimers)

OtherFields == DOMAIN INITIAL_CONTROL_STATE \ {"command"}

\* C28: the auto-clear changes only the command field: every other field
\* of the local ControlState is after it what the operator had made it
\* before, and so is every other field of the message it transmits.
C28_AutoClearKeepsOtherFields ==
    [][AutoClearStep =>
          /\ \A k \in OtherFields : control'[k] = control[k]
          /\ sent' # sent =>
                \A k \in OtherFields : sent'[Len(sent')].data[k] = control[k]]_vars

\* C29: whenever the local ControlState changes, a control message
\* carrying exactly the new ControlState is put on the transport; if
\* nothing is transmitted the local ControlState is unchanged.
C29_LocalNeverAhead ==
    [][control' # control =>
          sent' = Append(sent, [type |-> "control", data |-> control'])]_vars

(***************************************************************************)
(* Further claims about the session (checked under Spec).                  *)
(***************************************************************************)
\* C30: at most one reconnect timer is pending, this.reconnectTimer refers
\* to it, and disconnect() returns with none pending.
C30_OneTimerTracked ==
    /\ Cardinality(timers) <= 1
    /\ timers # {} => reconnectTimer \in timers
    /\ ev.op = "disconnect" => timers = {}

(***************************************************************************)
(* Claims about the chart history (checked under SpecHist).                *)
(***************************************************************************)
\* C22: after every update of the chart history every retained point is at
\* most 600 s older than the update (the newest point carries its time),
\* the earliest retained point has relative time 0 and every point's
\* relative time is its distance from the earliest, rounded to seconds.
C22_HistoryWindow ==
    history # <<>> =>
        /\ \A i \in 1..Len(history) :
              /\ history[Len(history)].timestamp - history[i].timestamp
                    <= 600 * 1000
              /\ 2 * 1000 * history[i].time
                    > 2 * (history[i].timestamp - history[1].timestamp) - 1000
              /\ 2 * 1000 * history[i].time
                    <= 2 * (history[i].timestamp - history[1].timestamp) + 1000
        /\ history[1].time = 0

\* C22 witness: points were evicted, and the earliest of the two retained
\* ones, 300.5 s older than the newest, counts from 0.
C22_Witness ==
    /\ Len(history) = 2
    /\ histUpdates = 4
    /\ history[1].timestamp > MountTime
    /\ history[1].time = 0
    /\ history[2].time = 301

\* C23: the chart history gains exactly one point for each snapshot the
\* session delivers, and changes at no other event.
C23_OnePointPerSnapshot ==
    [][/\ history' # history => histEv' = "snapshot"
       /\ (histUpdates' # histUpdates /\ histEv' = "snapshot") =>
             /\ Len(history') = Len(Retained(history, now)) + 1
             /\ history'[Len(history')].timestamp = now]_vars

(***************************************************************************)
(* Claims about the codec (checked under SpecCodec).                       *)
(***************************************************************************)
\* C24: for every power frame of 8 bytes the decoded dcfEfficiency lies in
\* [0, 99.9], also when dcfPower equals or exceeds stackPower and when
\* stackPower is 0.
C24_EfficiencyCapped ==
    (codecIn.kind = "power" /\ Len(codecIn.data) = 8 /\ codecOut.kind = "state")
        => codecOut.state.power.dcfEfficiency \in 0..999

\* the five force flags of a ControlState
ForceFlags(c) ==
    <<c.forceInletValve, c.forcePurgeValve, c.forceHeater, c.forceFan1, c.forceFan2>>

\* C25: the encoded control frame has byte1 = 0 when the mode is Auto,
\* whatever the five force flags are; in Manual mode with forceHeater the
\* only flag set, byte1 has exactly bit 2 set.
C25_Byte1ByMode ==
    codecOut.kind = "packet" =>
        /\ codecIn.control.mode = WorkMode.AUTO => codecOut.packet.data[2] = 0
        /\ (/\ codecIn.control.mode = WorkMode.MANUAL
            /\ ForceFlags(codecIn.control) = <<FALSE, FALSE, TRUE, FALSE, FALSE>>)
              => codecOut.packet.data[2] = 4

\* C25 witness: a ControlState in Auto mode with all five force flags set
\* was encoded.
C25_Witness ==
    /\ codecOut.kind = "packet"
    /\ codecIn.control.mode = WorkMode.AUTO
    /\ ForceFlags(codecIn.control) = <<TRUE, TRUE, TRUE, TRUE, TRUE>>
    /\ codecOut.packet.data[2] = 0

\* C26: a decode operation given a payload that is not 8 bytes long
\* returns a MalformedFrame error, not a MachineState.
C26_MalformedRejected ==
    (codecIn.kind \in FrameKinds /\ Len(codecIn.data) # 8 /\ codecOut # Pending)
        => codecOut.kind = "MalformedFrame"

====
